---- MODULE Spec2Model ----
(***************************************************************************)
(* Event-driven control core of the Bluetooth Mesh moisture sensor node:   *)
(* the Moisture Server module (moistsrv_module.c), the mesh connection     *)
(* module (meshconn_module.c) and the dispatch loop of main.c, together    *)
(* with the part of the Blue Gecko stack the two modules drive (soft       *)
(* timers, PS flash store, LPN feature, external signals).                 *)
(*                                                                         *)
(* One action is one pass of the main loop: an event is taken from the     *)
(* stack and handed to meshconn_handle_events and then to                  *)
(* moistsrv_handle_events.  A C function is an operator from the machine   *)
(* state (a record) to the machine state; a handler is the composition of  *)
(* the functions it calls, in program order.                               *)
(***************************************************************************)
EXTENDS Integers, Sequences, FiniteSets

VARIABLES
    alarm_level,        \* moistsrv: settings.alarm_level (uint16_t)
    disable_deep_sleep, \* moistsrv: PB1 was held at boot
    ready,              \* moistsrv: models are registered with mesh_lib
    conn_count,         \* moistsrv: uint8_t count of open connections
    state,              \* meshconn: meshconn_states
    conn_handle,        \* meshconn: uint8_t handle of the tracked connection
    blink_count,        \* meshconn: uint8_t pulses of one blink word
    blinks_remaining,   \* meshconn: uint8_t pulses left in the current word
    blink_state,        \* meshconn: the blink sequence is in its on phase
    blinking,           \* meshconn: a blink sequence is active
    flash,              \* stack: PS record stored under ALARM_FLASH_KEY
    timers,             \* stack: the armed soft timers, [handle, mode, time]
    in_flight,          \* stack: handles of stopped timers whose expiry is queued
    signals,            \* stack: external signal bits raised, not yet delivered
    lpn,                \* stack: the LPN feature is initialised
    friend,             \* stack: friendship "none", "establishing", "established"
    open_conns,         \* stack: number of BLE connections currently open
    phase,              \* stack: "reset", "booting" (boot event sent), "running"
    sensor_on,          \* hardware: the soil sensor is powered
    led,                \* hardware: the indicator LED is lit
    lcd_action,         \* LCD row LCD_ROW_ACTION (the toast row)
    lcd_passkey,        \* LCD row LCD_ROW_PASSKEY
    halted,             \* debug_throw was entered: the CPU spins for ever
    lastEvt,            \* the event handled by the last pass of the main loop
    trace,              \* the stack / driver calls made during that pass
    last_request,       \* level of the last threshold-set request handled
    on_phases,          \* LED-on phases of the blink word in progress
    word_expiries,      \* blink-timer expiries since blinks_remaining was loaded
    settings_loaded,    \* _load_settings has run since the last reset
    stack_faults        \* the stack may return an error to an asserted call

vars == <<alarm_level, disable_deep_sleep, ready, conn_count, state,
          conn_handle, blink_count, blinks_remaining, blink_state, blinking,
          flash, timers, in_flight, signals, lpn, friend, open_conns,
          phase, sensor_on, led, lcd_action, lcd_passkey, halted, lastEvt,
          trace, last_request, on_phases, word_expiries, settings_loaded,
          stack_faults>>

(***************************************************************************)
(* Program constants                                                       *)
(***************************************************************************)
MOIST_ALARM_FLAG == 32767
DEFAULT_ALARM_LEVEL == 32767
MAX_CONNECTIONS == 2
NO_CONNECTION == 255

SAVE_TIMER_HANDLE == 10
TOAST_TIMER_HANDLE == 11
BEFRIEND_TIMER_HANDLE == 12
MEASUREMENT_TIMER_HANDLE == 13
SOIL_POWER_ON_HANDLE == 30
BLINK_TIMER_HANDLE == 0
REBOOT_TIMER_HANDLE == 1

SOFT_TIMER_FREE_RUN == "free_run"
SOFT_TIMER_ONE_SHOT == "one_shot"

PB_EVT_0 == "PB_EVT_0"
CORE_EVT_BOOT == "CORE_EVT_BOOT"
CORE_EVT_POST_BOOT == "CORE_EVT_POST_BOOT"
CORE_EVT_NETWORK_READY == "CORE_EVT_NETWORK_READY"
ADC_WAIT_FINISHED == "ADC_WAIT_FINISHED"

UINT8 == 256

lux_to_alarm_table ==
    <<3840, 3584, 3328, 3072, 2816, 2560, 2304, 2048, 1024, 768, 512>>

\* sizeof(lux_to_alarm_table): eleven uint16_t entries of two bytes each
sizeof_lux_to_alarm_table == Len(lux_to_alarm_table) * 2

\* static const uint8_t max_lux = sizeof(lux_to_alarm_table)-1;
max_lux == (sizeof_lux_to_alarm_table - 1) % UINT8

(***************************************************************************)
(* Bounds of the model                                                     *)
(***************************************************************************)
\* of the mesh_lib calls of one pass (update, publish, response), the first
\* MaxSoftFail may each return an error
MaxSoftFail == 4

\* of the asserted stack calls of one pass, one of the first MaxFailPoint
\* may return an error (the calls after it are never reached)
MaxFailPoint == 4
MaxPhases == 3

\* a provisioning session ends before the blink timer has expired more
\* than MaxWordExpiries times since the pulse counter was last loaded
MaxWordExpiries == 6

\* Words the build may hold behind the table (an out-of-bounds read returns
\* whatever is there); 512 is the word a saturating read would have given.
OutOfTableWords == {512, 43981}

\* requested levels: inside the table, just past its last entry, past
\* max_lux, the alarm sentinel
RequestLevels == {0, 10, 11, 22, MOIST_ALARM_FLAG}

\* 12 bit ADC readings: at a threshold in use and just above it
Readings == {512, 513}

\* the output actions of a challenge, and the numbers it asks to blink
OutputActions ==
    {"MESH_PROV_OOB_DISPLY_BLINK", "MESH_PROV_OOB_DISPLY_NUMERIC",
     "MESH_PROV_OOB_DISPLY_BEEP"}
BlinkCounts == {0, 1, 2}

\* what the PS store may hold under ALARM_FLASH_KEY before the first boot
Absent == [present |-> FALSE, len |-> 0, value |-> 0]
StoredRecord(v) == [present |-> TRUE, len |-> 2, value |-> v]
InitialFlash == {Absent, [present |-> TRUE, len |-> 1, value |-> 7],
                 StoredRecord(512)}
(***************************************************************************)
(* The machine state as a record, and the stack calls                      *)
(***************************************************************************)
\* The state at the start of a pass of the main loop.  failAt is the
\* number of the asserted stack call that returns an error in this pass
\* (0: none), softFail the numbers of the mesh_lib calls that do, oob the
\* word an out-of-table read returns.
Machine(f, sf, w) ==
    [alarm_level |-> alarm_level, disable_deep_sleep |-> disable_deep_sleep,
     ready |-> ready, conn_count |-> conn_count, state |-> state,
     conn_handle |-> conn_handle, blink_count |-> blink_count,
     blinks_remaining |-> blinks_remaining, blink_state |-> blink_state,
     blinking |-> blinking, flash |-> flash, timers |-> timers,
     in_flight |-> in_flight, signals |-> signals, lpn |-> lpn,
     friend |-> friend, open_conns |-> open_conns, phase |-> phase,
     sensor_on |-> sensor_on, led |-> led, lcd_action |-> lcd_action,
     lcd_passkey |-> lcd_passkey,
     halted |-> halted, last_request |-> last_request, trace |-> <<>>,
     restarted |-> FALSE, expiry_queued |-> FALSE,
     settings_loaded |-> settings_loaded,
     calls |-> 0, failAt |-> f, softCalls |-> 0, softFail |-> sf, oob |-> w]

Call(op, arg, msg, ok) == [op |-> op, arg |-> arg, msg |-> msg, ok |-> ok]

\* an assertion that logs the error and returns
DEBUG_ASSERT_BGAPI_SUCCESS_returning(s, op, arg) ==
    IF s.halted THEN s
    ELSE [s EXCEPT !.calls = @ + 1,
                   !.trace = Append(@, Call(op, arg, "",
                                            s.calls + 1 # s.failAt))]

\* DEBUG_ASSERT_BGAPI_SUCCESS(cmd->result, ...): the command is issued; if
\* it returns an error, debug_throw hangs the processor.
DEBUG_ASSERT_BGAPI_SUCCESS(s, op, arg) ==
    IF s.halted THEN s
    ELSE [s EXCEPT !.calls = @ + 1,
                   !.trace = Append(@, Call(op, arg, "",
                                            s.calls + 1 # s.failAt)),
                   !.halted = (s.calls + 1 = s.failAt)]

\* a mesh_lib call whose errorcode_t result the caller inspects
mesh_lib_call(s, op, arg) ==
    IF s.halted THEN s
    ELSE [s EXCEPT !.softCalls = @ + 1,
                   !.trace = Append(@, Call(op, arg, "",
                                            (s.softCalls + 1) \notin s.softFail))]

\* result != bg_err_success, of the call just made
LastFailed(s) == ~s.trace[Len(s.trace)].ok

\* the handles of the soft timers T
HandlesOf(T) == {t.handle : t \in T}

timer_armed(s, time, handle, mode) ==
    IF s.halted THEN s
    ELSE [s EXCEPT !.timers = {t \in @ : t.handle # handle}
                                 \cup {[handle |-> handle, mode |-> mode,
                                        time |-> time]}]

\* gecko_cmd_hardware_set_soft_timer(time, handle, mode), asserted: arms
\* the timer of that handle, replacing what was scheduled for it
set_soft_timer(s, time, handle, mode) ==
    timer_armed(DEBUG_ASSERT_BGAPI_SUCCESS(s, "set_soft_timer", handle),
                time, handle, mode)

\* LCD_write(text, row); of the rows LCD_ROW_ACTION and LCD_ROW_PASSKEY
\* are kept
LCD_write(s, row, text) ==
    IF ~s.halted /\ row = "LCD_ROW_ACTION" THEN [s EXCEPT !.lcd_action = text]
    ELSE IF ~s.halted /\ row = "LCD_ROW_PASSKEY"
    THEN [s EXCEPT !.lcd_passkey = text]
    ELSE s

\* the log of a pass also notes the entry of a function, with its argument
entered(s, fn, arg) ==
    IF s.halted THEN s
    ELSE [s EXCEPT !.trace = Append(@, Call(fn, arg, "", TRUE))]

gecko_external_signal(s, bit) ==
    IF s.halted THEN s
    ELSE [s EXCEPT !.signals = @ \cup {bit},
                   !.trace = Append(@, Call("gecko_external_signal", 0, bit,
                                            TRUE))]

(***************************************************************************)
(* moistsrv_module.c                                                       *)
(***************************************************************************)
toast_shown(s, message) ==
    IF s.halted THEN s
    ELSE [s EXCEPT !.trace = Append(@, Call("_toast", 0, message, TRUE))]

\* a toast that is shown without arming the timer that clears it
_toast_unarmed(s, message) ==
    toast_shown(LCD_write(LCD_write(s, "LCD_ROW_ACTION", ""),
                          "LCD_ROW_ACTION", message), message)

_toast(s, message) ==
    set_soft_timer(
        toast_shown(LCD_write(LCD_write(s, "LCD_ROW_ACTION", ""),
                              "LCD_ROW_ACTION", message), message),
        "TOAST_DURATION", TOAST_TIMER_HANDLE, SOFT_TIMER_ONE_SHOT)

ps_saved(s) ==
    IF s.halted THEN s ELSE [s EXCEPT !.flash = StoredRecord(s.alarm_level)]

\* gecko_cmd_flash_ps_save(ALARM_FLASH_KEY, 2, &settings), asserted
\* a save whose record does not reach the flash
_save_settings_unwritten(s) ==
    IF s.halted THEN s
    ELSE DEBUG_ASSERT_BGAPI_SUCCESS(s, "flash_ps_save", s.alarm_level)

_save_settings(s) ==
    IF s.halted THEN s
    ELSE ps_saved(DEBUG_ASSERT_BGAPI_SUCCESS(s, "flash_ps_save", s.alarm_level))

\* _set_alarm_level without the comparison against the current level
_set_alarm_level_unconditional(s, new_level) ==
    IF s.halted THEN s
    ELSE set_soft_timer(
             _toast([entered(s, "_set_alarm_level", new_level)
                        EXCEPT !.alarm_level = new_level], "ALM LVL"),
             "SAVE_DELAY", SAVE_TIMER_HANDLE, SOFT_TIMER_ONE_SHOT)

\* a change of the threshold that does not arm the save timer
_set_alarm_level_unsaved(s, new_level) ==
    IF s.halted THEN s
    ELSE IF new_level = s.alarm_level
    THEN entered(s, "_set_alarm_level", new_level)
    ELSE _toast([entered(s, "_set_alarm_level", new_level)
                    EXCEPT !.alarm_level = new_level], "ALM LVL")

_set_alarm_level(s, new_level) ==
    IF s.halted THEN s
    ELSE IF new_level = s.alarm_level
    THEN entered(s, "_set_alarm_level", new_level)
    ELSE set_soft_timer(
             _toast([entered(s, "_set_alarm_level", new_level)
                        EXCEPT !.alarm_level = new_level], "ALM LVL"),
             "SAVE_DELAY", SAVE_TIMER_HANDLE, SOFT_TIMER_ONE_SHOT)

\* _load_settings taking a stored record of any length
_load_settings_any_length(s) ==
    IF s.halted THEN s
    ELSE IF s.flash.present
    THEN [entered(s, "_load_settings", 0)
             EXCEPT !.alarm_level = s.flash.value, !.settings_loaded = TRUE]
    ELSE _save_settings([entered(s, "_load_settings", 0)
                            EXCEPT !.alarm_level = DEFAULT_ALARM_LEVEL,
                                   !.settings_loaded = TRUE])

\* gecko_cmd_flash_ps_load succeeds when the key holds a record; the record
\* is taken when its length is sizeof(settings)
_load_settings(s) ==
    IF s.halted THEN s
    ELSE IF s.flash.present /\ s.flash.len = 2
    THEN [entered(s, "_load_settings", 0)
             EXCEPT !.alarm_level = s.flash.value, !.settings_loaded = TRUE]
    ELSE _save_settings([entered(s, "_load_settings", 0)
                            EXCEPT !.alarm_level = DEFAULT_ALARM_LEVEL,
                                   !.settings_loaded = TRUE])

\* an error handler that shows the toast and issues the call once more
toast_if_error_then_retry(s, message) ==
    IF s.halted \/ ~LastFailed(s) THEN s
    ELSE mesh_lib_call(_toast(s, message), s.trace[Len(s.trace)].op,
                       s.trace[Len(s.trace)].arg)

toast_if_error(s, message) ==
    IF s.halted \/ ~LastFailed(s) THEN s ELSE _toast(s, message)

_update_level(s, level) ==
    toast_if_error(mesh_lib_call(s, "mesh_lib_generic_server_update", level),
                   "U-ERR")

\* a publication that is given up when the update of the model failed
_publish_moisture_unless_updated(s, level) ==
    IF s.halted
       \/ LastFailed(mesh_lib_call(s, "mesh_lib_generic_server_update",
                                   level))
    THEN _update_level(s, level)
    ELSE toast_if_error(
             mesh_lib_call(_update_level(s, level),
                           "mesh_lib_generic_server_publish", level),
             "P-ERR")

_publish_moisture(s, level) ==
    toast_if_error(
        mesh_lib_call(_update_level(s, level),
                      "mesh_lib_generic_server_publish", level),
        "P-ERR")

models_registered(s) ==
    IF s.halted THEN s ELSE [s EXCEPT !.ready = TRUE]

\* mesh_lib_init and mesh_lib_generic_server_register_handler, then ready
_init_and_register_models(s) ==
    models_registered(
        DEBUG_ASSERT_BGAPI_SUCCESS(
            DEBUG_ASSERT_BGAPI_SUCCESS(s, "mesh_lib_init", 0),
            "mesh_lib_generic_server_register_handler", 0))

befriending(s) ==
    IF s.halted THEN s
    ELSE LCD_write([s EXCEPT !.friend = "establishing"],
                   "LCD_ROW_CONNECTION", "Befriending")

\* gecko_cmd_mesh_lpn_establish_friendship(0), asserted; then the LCD row
_get_friend(s) ==
    befriending(
        DEBUG_ASSERT_BGAPI_SUCCESS(s, "mesh_lpn_establish_friendship", 0))

lpn_initialised(s) ==
    IF s.halted THEN s ELSE [s EXCEPT !.lpn = TRUE]

_become_lpn(s) ==
    _get_friend(
        DEBUG_ASSERT_BGAPI_SUCCESS(
            lpn_initialised(
                DEBUG_ASSERT_BGAPI_SUCCESS(
                    LCD_write(s, "LCD_ROW_CONNECTION", "Not Friended"),
                    "mesh_lpn_init", 0)),
            "mesh_lpn_configure", 0))

lpn_deinitialised(s) ==
    IF s.halted THEN s ELSE [s EXCEPT !.lpn = FALSE, !.friend = "none"]

\* gecko_cmd_mesh_lpn_deinit(), asserted: leaves LPN mode, which ends any
\* friendship
mesh_lpn_deinit(s) ==
    lpn_deinitialised(DEBUG_ASSERT_BGAPI_SUCCESS(s, "mesh_lpn_deinit", 0))

\* soil_start_reading_async: power the sensor, start the power-on delay
_do_measurement(s) ==
    IF s.halted THEN s
    ELSE set_soft_timer([s EXCEPT !.sensor_on = TRUE], "SOIL_POWER_ON_TIME",
                        SOIL_POWER_ON_HANDLE, SOFT_TIMER_ONE_SHOT)

\* a conversion that leaves the sensor powered
soil_finish_reading_async_left_on(s) == s

\* soil_finish_reading_async: convert, then power the sensor down
soil_finish_reading_async(s) ==
    IF s.halted THEN s ELSE [s EXCEPT !.sensor_on = FALSE]

\* _finish_measurement with the comparison measurement >= alarm_level
_finish_measurement_alarm_at_level(s, measurement) ==
    _publish_moisture(
        LCD_write(
            IF measurement >= s.alarm_level
            THEN _publish_moisture(
                     entered(soil_finish_reading_async(s),
                             "_finish_measurement", measurement),
                     MOIST_ALARM_FLAG)
            ELSE entered(soil_finish_reading_async(s),
                         "_finish_measurement", measurement),
            "LCD_ROW_TEMPVALUE",
            IF measurement >= s.alarm_level THEN "Wet" ELSE "Dry"),
        measurement)

\* measurement is the conversion soil_finish_reading_async returned
_finish_measurement(s, measurement) ==
    _publish_moisture(
        LCD_write(
            IF measurement > s.alarm_level
            THEN _publish_moisture(
                     entered(soil_finish_reading_async(s),
                             "_finish_measurement", measurement),
                     MOIST_ALARM_FLAG)
            ELSE entered(soil_finish_reading_async(s),
                         "_finish_measurement", measurement),
            "LCD_ROW_TEMPVALUE",
            IF measurement > s.alarm_level THEN "Wet" ELSE "Dry"),
        measurement)

\* if (lux_level > max_lux) lux_level = max_lux;
saturated(lux_level) ==
    IF lux_level > max_lux THEN max_lux ELSE lux_level

\* lux_to_alarm_table[lux_level]: past the eleven entries the read returns
\* whatever word the build placed there
table_read(s, lux_level) ==
    IF lux_level < Len(lux_to_alarm_table)
    THEN lux_to_alarm_table[lux_level + 1]
    ELSE s.oob

\* the table is read at lux_level for this request
table_indexed(s, request, lux_level) ==
    [s EXCEPT !.last_request = request.level,
              !.trace = Append(@, Call("lux_to_alarm_table", lux_level, "",
                                       lux_level < Len(lux_to_alarm_table)))]

\* if (request_flags & MESH_REQUEST_FLAG_RESPONSE_REQUIRED) ...
respond(s, request) ==
    IF s.halted \/ ~request.response_required THEN s
    ELSE toast_if_error(
             mesh_lib_call(s, "mesh_lib_generic_server_response",
                           s.alarm_level),
             "R-ERR")

\* _handle_client_request without the test for the alarm sentinel
_handle_client_request_accepting_alarm(s, request) ==
    IF s.halted \/ request.kind # "mesh_generic_request_level" THEN s
    ELSE respond(
             _set_alarm_level(
                 table_indexed(s, request, saturated(request.level)),
                 table_read(s, saturated(request.level))),
             request)

_handle_client_request(s, request) ==
    IF s.halted \/ request.kind # "mesh_generic_request_level" THEN s
    ELSE IF request.level = MOIST_ALARM_FLAG THEN s
    ELSE respond(
             _set_alarm_level(
                 table_indexed(s, request, saturated(request.level)),
                 table_read(s, saturated(request.level))),
             request)

\* if (extsignals & CORE_EVT_BOOT)
on_boot(s, evt) ==
    IF CORE_EVT_BOOT \in evt.extsignals
    THEN DEBUG_ASSERT_BGAPI_SUCCESS(_load_settings(s),
                                    "mesh_generic_server_init", 0)
    ELSE s

\* if (extsignals & CORE_EVT_POST_BOOT)
on_post_boot(s, evt) ==
    IF CORE_EVT_POST_BOOT \in evt.extsignals /\ s.disable_deep_sleep
    THEN _toast(s, "Forced Awake")
    ELSE s

low_power_decision(s) ==
    IF ~s.disable_deep_sleep THEN _become_lpn(s)
    ELSE LCD_write(s, "LCD_ROW_CONNECTION", "Fully Awake")

\* if (extsignals & CORE_EVT_NETWORK_READY)
on_network_ready(s, evt) ==
    IF CORE_EVT_NETWORK_READY \in evt.extsignals
    THEN low_power_decision(
             set_soft_timer(_init_and_register_models(s), "MEASUREMENT_TIME",
                            MEASUREMENT_TIMER_HANDLE, SOFT_TIMER_FREE_RUN))
    ELSE s

\* the PB_EVT_0 case without the test of the state and of ready
on_pb0_unconditional(s, evt) ==
    IF PB_EVT_0 \in evt.extsignals
    THEN _publish_moisture(_toast(s, "Forced TX"), MOIST_ALARM_FLAG)
    ELSE s

\* if (extsignals & PB_EVT_0)
\* a forced transmission that does not wait for the model to be registered
on_pb0_before_ready(s, evt) ==
    IF PB_EVT_0 \in evt.extsignals
    THEN _publish_moisture(_toast(s, "Forced TX"), MOIST_ALARM_FLAG)
    ELSE s

on_pb0(s, evt) ==
    IF PB_EVT_0 \in evt.extsignals /\ s.state = "network_ready" /\ s.ready
    THEN _publish_moisture(_toast(s, "Forced TX"), MOIST_ALARM_FLAG)
    ELSE s

\* if (extsignals & ADC_WAIT_FINISHED)
on_adc_wait_finished(s, evt) ==
    IF ADC_WAIT_FINISHED \in evt.extsignals
    THEN _finish_measurement(s, evt.reading)
    ELSE s

\* case gecko_evt_system_external_signal_id
\* the signals handled with CORE_EVT_NETWORK_READY ahead of CORE_EVT_BOOT
moistsrv_external_signal_network_first(s, evt) ==
    on_adc_wait_finished(
        on_pb0(on_post_boot(on_boot(on_network_ready(s, evt), evt), evt), evt),
        evt)

moistsrv_external_signal(s, evt) ==
    on_adc_wait_finished(
        on_pb0(on_network_ready(on_post_boot(on_boot(s, evt), evt), evt), evt),
        evt)

\* case gecko_evt_le_connection_opened_id
moistsrv_connection_opened(s) ==
    IF s.halted THEN s
    ELSE _toast(
             LCD_write(
                 mesh_lpn_deinit([s EXCEPT !.conn_count = (@ + 1) % UINT8]),
                 "LCD_ROW_CONNECTION", "Awake for Connection"),
             "External Connect")

\* the last connection closing with no regard for disable_deep_sleep
all_connections_closed_always_lpn(s) ==
    IF s.halted \/ ~(s.conn_count <= 0) THEN s
    ELSE IF s.ready THEN _become_lpn(s)
    ELSE s

\* if (conn_count <= 0) ...
all_connections_closed(s) ==
    IF s.halted \/ ~(s.conn_count <= 0) THEN s
    ELSE IF s.ready /\ ~s.disable_deep_sleep THEN _become_lpn(s)
    ELSE IF s.ready /\ s.disable_deep_sleep
    THEN LCD_write(s, "LCD_ROW_CONNECTION", "Fully Awake")
    ELSE s

\* the connection_closed case taking two from conn_count
moistsrv_connection_closed_by_two(s) ==
    IF s.halted THEN s
    ELSE all_connections_closed(
             _toast([s EXCEPT !.conn_count = (@ + UINT8 - 2) % UINT8],
                    "External Disconnect"))

\* case gecko_evt_le_connection_closed_id
moistsrv_connection_closed(s) ==
    IF s.halted THEN s
    ELSE all_connections_closed(
             _toast([s EXCEPT !.conn_count = (@ + UINT8 - 1) % UINT8],
                    "External Disconnect"))

\* case gecko_evt_mesh_lpn_friendship_established_id
moistsrv_friendship_established(s) ==
    LCD_write(_toast(s, "Friend Found"), "LCD_ROW_CONNECTION", "Friended")

\* the friendship_failed case asking again at once
moistsrv_friendship_failed_no_backoff(s) ==
    _get_friend(LCD_write(_toast(s, "Befriend Failed"),
                          "LCD_ROW_CONNECTION", "Friend Wait"))

\* case gecko_evt_mesh_lpn_friendship_failed_id
moistsrv_friendship_failed(s) ==
    set_soft_timer(LCD_write(_toast(s, "Befriend Failed"),
                             "LCD_ROW_CONNECTION", "Friend Wait"),
                   "BEFRIEND_RETRY_DELAY", BEFRIEND_TIMER_HANDLE,
                   SOFT_TIMER_ONE_SHOT)

\* the friendship_terminated case waiting for the befriend timer
moistsrv_friendship_terminated_with_backoff(s) ==
    set_soft_timer(_toast(LCD_write(s, "LCD_ROW_CONNECTION", "Not Friended"),
                          "Lost Friend"),
                   "BEFRIEND_RETRY_DELAY", BEFRIEND_TIMER_HANDLE,
                   SOFT_TIMER_ONE_SHOT)

\* case gecko_evt_mesh_lpn_friendship_terminated_id
moistsrv_friendship_terminated(s) ==
    _get_friend(_toast(LCD_write(s, "LCD_ROW_CONNECTION", "Not Friended"),
                       "Lost Friend"))

\* case gecko_evt_hardware_soft_timer_id
moistsrv_soft_timer(s, handle) ==
    IF handle = SAVE_TIMER_HANDLE THEN _save_settings(s)
    ELSE IF handle = TOAST_TIMER_HANDLE THEN LCD_write(s, "LCD_ROW_ACTION", "")
    ELSE IF handle = BEFRIEND_TIMER_HANDLE THEN _get_friend(s)
    ELSE IF handle = MEASUREMENT_TIMER_HANDLE THEN _do_measurement(s)
    ELSE s

moistsrv_handle_events(s, evt) ==
    IF evt.id = "system_external_signal" THEN moistsrv_external_signal(s, evt)
    ELSE IF evt.id = "mesh_generic_server_client_request"
    THEN _handle_client_request(s, evt)
    ELSE IF evt.id = "le_connection_opened" THEN moistsrv_connection_opened(s)
    ELSE IF evt.id = "le_connection_closed" THEN moistsrv_connection_closed(s)
    ELSE IF evt.id = "mesh_lpn_friendship_established"
    THEN moistsrv_friendship_established(s)
    ELSE IF evt.id = "mesh_lpn_friendship_failed"
    THEN moistsrv_friendship_failed(s)
    ELSE IF evt.id = "mesh_lpn_friendship_terminated"
    THEN moistsrv_friendship_terminated(s)
    ELSE IF evt.id = "hardware_soft_timer" THEN moistsrv_soft_timer(s, evt.handle)
    ELSE s

(***************************************************************************)
(* meshconn_module.c                                                       *)
(***************************************************************************)
\* state = new_state; the assignment is noted in the log of the pass
set_state(s, new_state) ==
    [s EXCEPT !.state = new_state,
              !.trace = Append(@, Call("state", 0, new_state, TRUE))]

led_on(s) ==
    IF s.halted THEN s
    ELSE [s EXCEPT !.led = TRUE,
                   !.trace = Append(@, Call("led_on", 0, "", TRUE))]

led_off(s) ==
    IF s.halted THEN s
    ELSE [s EXCEPT !.led = FALSE,
                   !.trace = Append(@, Call("led_off", 0, "", TRUE))]

\* gecko_cmd_system_reset(0): the chip restarts.  RAM returns to its
\* initialisers, the stack forgets timers, signals and connections, the
\* flash store is kept; moistsrv_init samples PB1 again after the restart.
gecko_cmd_system_reset(s, evt) ==
    IF s.halted THEN s
    ELSE [s EXCEPT !.alarm_level = 0, !.disable_deep_sleep = evt.pb1,
                   !.ready = FALSE, !.conn_count = 0, !.state = "init",
                   !.conn_handle = 0, !.blink_count = 0,
                   !.blinks_remaining = 0, !.blink_state = FALSE,
                   !.blinking = FALSE, !.timers = {}, !.in_flight = {},
                   !.signals = {}, !.lpn = FALSE, !.friend = "none",
                   !.open_conns = 0, !.phase = "reset", !.sensor_on = FALSE,
                   !.led = FALSE, !.lcd_action = "", !.lcd_passkey = "",
                   !.restarted = TRUE, !.settings_loaded = FALSE,
                   !.trace = Append(@, Call("system_reset", 0, "", TRUE))]

\* gecko_cmd_flash_ps_erase_all(), its result not looked at
_do_factory_reset(s) ==
    IF s.halted THEN s
    ELSE set_state(
             LCD_write([s EXCEPT !.flash = Absent,
                                 !.trace = Append(@, Call("flash_ps_erase_all",
                                                          0, "", TRUE))],
                       "LCD_ROW_CONNECTION", "Factory Reset"),
             "unprovisioned")

_reset_state_leaving_state(s) ==
    IF s.halted THEN s
    ELSE LCD_write(
             LCD_write([s EXCEPT !.blink_count = 0, !.blinks_remaining = 0,
                                 !.blink_state = FALSE, !.blinking = FALSE],
                       "LCD_ROW_PASSKEY", ""),
             "LCD_ROW_CONNECTION", "Booting...")

_reset_state(s) ==
    IF s.halted THEN s
    ELSE LCD_write(
             LCD_write(set_state([s EXCEPT !.blink_count = 0,
                                           !.blinks_remaining = 0,
                                           !.blink_state = FALSE,
                                           !.blinking = FALSE],
                                 "booted"),
                       "LCD_ROW_PASSKEY", ""),
             "LCD_ROW_CONNECTION", "Booting...")

\* gecko_cmd_mesh_node_start_unprov_beaconing; its result is not looked at
beaconing_started(s) ==
    IF s.halted THEN s
    ELSE [s EXCEPT !.trace = Append(@, Call("mesh_node_start_unprov_beaconing",
                                            0, "", TRUE))]

_start_provisioning_beacon(s) ==
    IF s.halted THEN s
    ELSE LCD_write(set_state(beaconing_started(s), "unprovisioned"),
                   "LCD_ROW_CONNECTION", "Beaconing...")

blink_gap_started(s) ==
    IF s.halted THEN s ELSE [s EXCEPT !.blinks_remaining = s.blink_count]

blink_now_off(s) ==
    IF s.halted THEN s ELSE [s EXCEPT !.blink_state = FALSE]

blink_now_on_without_count(s) ==
    IF s.halted THEN s ELSE [s EXCEPT !.blink_state = TRUE]

blink_now_on(s) ==
    IF s.halted THEN s
    ELSE [s EXCEPT !.blinks_remaining = (@ + UINT8 - 1) % UINT8,
                   !.blink_state = TRUE]

_handle_blinking_unguarded(s) ==
    IF s.halted THEN s
    ELSE IF s.blink_state
    THEN blink_now_off(
             IF s.blinks_remaining = 0
             THEN blink_gap_started(
                      set_soft_timer(led_off(s), "BLINK_GAP_COUNTS",
                                     BLINK_TIMER_HANDLE, SOFT_TIMER_ONE_SHOT))
             ELSE set_soft_timer(led_off(s), "BLINK_OFF_COUNTS",
                                 BLINK_TIMER_HANDLE, SOFT_TIMER_ONE_SHOT))
    ELSE blink_now_on(
             set_soft_timer(led_on(s), "BLINK_ON_COUNTS",
                            BLINK_TIMER_HANDLE, SOFT_TIMER_ONE_SHOT))

_handle_blinking(s) ==
    IF s.halted \/ ~s.blinking THEN s
    ELSE IF s.blink_state
    THEN blink_now_off(
             IF s.blinks_remaining = 0
             THEN blink_gap_started(
                      set_soft_timer(led_off(s), "BLINK_GAP_COUNTS",
                                     BLINK_TIMER_HANDLE, SOFT_TIMER_ONE_SHOT))
             ELSE set_soft_timer(led_off(s), "BLINK_OFF_COUNTS",
                                 BLINK_TIMER_HANDLE, SOFT_TIMER_ONE_SHOT))
    ELSE blink_now_on(
             set_soft_timer(led_on(s), "BLINK_ON_COUNTS",
                            BLINK_TIMER_HANDLE, SOFT_TIMER_ONE_SHOT))

_start_blinking(s, count) ==
    IF s.halted THEN s
    ELSE IF count = 0
    THEN led_on([entered(s, "_start_blinking", count)
                    EXCEPT !.blink_count = count])
    ELSE _handle_blinking(
             [entered(s, "_start_blinking", count)
                 EXCEPT !.blink_count = count, !.blinks_remaining = count,
                        !.blink_state = FALSE, !.blinking = TRUE])

\* the stack stops the timer; an expiry it had already queued still arrives
timer_stopped(s, handle) ==
    IF s.halted THEN s
    ELSE [s EXCEPT !.timers = {t \in @ : t.handle # handle},
                   !.in_flight =
                       IF s.expiry_queued /\ handle \in HandlesOf(s.timers)
                       THEN @ \cup {handle} ELSE @]

\* gecko_cmd_hardware_set_soft_timer(SOFT_TIMER_STOP, BLINK_TIMER_HANDLE, ..)
\* a stop of the blinking that leaves the indicator as it is
_stop_blinking_leaving_led(s) ==
    IF s.halted THEN s
    ELSE timer_stopped(
             DEBUG_ASSERT_BGAPI_SUCCESS(
                 [s EXCEPT !.blinking = FALSE],
                 "stop_soft_timer", BLINK_TIMER_HANDLE),
             BLINK_TIMER_HANDLE)

_stop_blinking(s) ==
    IF s.halted THEN s
    ELSE timer_stopped(
             DEBUG_ASSERT_BGAPI_SUCCESS(
                 led_off([s EXCEPT !.blinking = FALSE]),
                 "stop_soft_timer", BLINK_TIMER_HANDLE),
             BLINK_TIMER_HANDLE)

\* an activation that does not raise the signal
_activate_network_unsignalled(s) ==
    IF s.halted THEN s
    ELSE LCD_write(set_state(s, "network_ready"),
                   "LCD_ROW_CONNECTION", "Ready")

\* an activation that raises the signal twice
_activate_network_twice(s) ==
    IF s.halted THEN s
    ELSE LCD_write(
             gecko_external_signal(
                 gecko_external_signal(set_state(s, "network_ready"),
                                       CORE_EVT_NETWORK_READY),
                 CORE_EVT_NETWORK_READY),
             "LCD_ROW_CONNECTION", "Ready")

_activate_network(s) ==
    IF s.halted THEN s
    ELSE LCD_write(gecko_external_signal(set_state(s, "network_ready"),
                                         CORE_EVT_NETWORK_READY),
                   "LCD_ROW_CONNECTION", "Ready")

\* case gecko_evt_system_boot_id
meshconn_system_boot(s, evt) ==
    IF evt.pb0
    THEN gecko_cmd_system_reset(led_on(_do_factory_reset(_reset_state(s))),
                                evt)
    ELSE DEBUG_ASSERT_BGAPI_SUCCESS(_reset_state(s), "mesh_node_init_oob", 0)

\* case gecko_evt_mesh_node_display_output_oob_id
meshconn_display_output_oob(s, evt) ==
    IF evt.output_action = "MESH_PROV_OOB_DISPLY_BLINK"
    THEN _start_blinking(s, evt.data)
    ELSE IF evt.output_action = "MESH_PROV_OOB_DISPLY_NUMERIC"
    THEN LCD_write(s, "LCD_ROW_PASSKEY", "%04d")
    ELSE s

\* if (conn_handle != 0xFF) gecko_cmd_le_connection_close(conn_handle);
close_connection(s) ==
    IF s.halted \/ s.conn_handle = NO_CONNECTION THEN s
    ELSE [s EXCEPT !.trace = Append(@, Call("le_connection_close",
                                            s.conn_handle, "", TRUE))]

\* case gecko_evt_mesh_node_reset_id
\* a node reset that restarts the device within its own handling
meshconn_node_reset_at_once(s) ==
    gecko_cmd_system_reset(
        close_connection(
            LCD_write(_do_factory_reset(s), "LCD_ROW_CONNECTION",
                      "Rebooting...")),
        [pb1 |-> FALSE])

meshconn_node_reset(s) ==
    set_soft_timer(
        close_connection(
            LCD_write(_do_factory_reset(s), "LCD_ROW_CONNECTION",
                      "Rebooting...")),
        "REBOOT_TIME_COUNTS", REBOOT_TIMER_HANDLE, SOFT_TIMER_ONE_SHOT)

\* case gecko_evt_hardware_soft_timer_id
meshconn_soft_timer(s, evt) ==
    IF evt.handle = BLINK_TIMER_HANDLE THEN _handle_blinking(s)
    ELSE IF evt.handle = REBOOT_TIMER_HANDLE
    THEN gecko_cmd_system_reset(s, evt)
    ELSE s

\* if (extsignals & CORE_EVT_BOOT): kick off the second stage boot
meshconn_on_boot(s, evt) ==
    IF CORE_EVT_BOOT \in evt.extsignals
    THEN gecko_external_signal(s, CORE_EVT_POST_BOOT)
    ELSE s

\* if (extsignals & CORE_EVT_NETWORK_READY): show the element address
meshconn_on_network_ready(s, evt) ==
    IF CORE_EVT_NETWORK_READY \in evt.extsignals
    THEN LCD_write(DEBUG_ASSERT_BGAPI_SUCCESS(s,
                       "mesh_node_get_element_address", 0),
                   "LCD_ROW_CLIENTADDR", "0x%04X")
    ELSE s

\* the provisioned case leaving the passkey row as it is
meshconn_provisioned_passkey_kept(s) ==
    _stop_blinking(_activate_network(s))

\* case gecko_evt_mesh_node_provisioned_id
meshconn_provisioned(s) ==
    _stop_blinking(_activate_network(LCD_write(s, "LCD_ROW_PASSKEY", "")))

meshconn_handle_events(s, evt) ==
    IF s.halted THEN s
    ELSE IF evt.id = "system_boot" THEN meshconn_system_boot(s, evt)
    ELSE IF evt.id = "mesh_node_initialized"
    THEN gecko_external_signal(
             IF evt.provisioned THEN _activate_network(s)
             ELSE _start_provisioning_beacon(s),
             CORE_EVT_BOOT)
    ELSE IF evt.id = "mesh_node_provisioning_started"
    THEN LCD_write(
             LCD_write(set_state(s, "provisioning"),
                       "LCD_ROW_CONNECTION", "Provisioning..."),
             "LCD_ROW_PASSKEY", "")
    ELSE IF evt.id = "mesh_node_static_oob_request"
    THEN [s EXCEPT !.trace = Append(@, Call("static_oob_request_rsp", 0, "",
                                            TRUE))]
    ELSE IF evt.id = "mesh_node_display_output_oob"
    THEN meshconn_display_output_oob(s, evt)
    ELSE IF evt.id = "mesh_node_provisioning_failed"
    THEN _start_provisioning_beacon(
             _stop_blinking(LCD_write(s, "LCD_ROW_PASSKEY", "")))
    ELSE IF evt.id = "mesh_node_provisioned" THEN meshconn_provisioned(s)
    ELSE IF evt.id = "mesh_node_reset" THEN meshconn_node_reset(s)
    ELSE IF evt.id = "hardware_soft_timer" THEN meshconn_soft_timer(s, evt)
    ELSE IF evt.id = "system_external_signal"
    THEN meshconn_on_network_ready(meshconn_on_boot(s, evt), evt)
    ELSE IF evt.id = "le_connection_opened"
    THEN [s EXCEPT !.conn_handle = evt.connection]
    ELSE IF evt.id = "le_connection_closed"
    THEN [s EXCEPT !.conn_handle = NO_CONNECTION]
    ELSE s

(***************************************************************************)
(* main.c: one pass of the main loop                                       *)
(***************************************************************************)
NoEvt ==
    [id |-> "none", handle |-> 0, extsignals |-> {}, provisioned |-> FALSE,
     kind |-> "", level |-> 0, response_required |-> FALSE, reading |-> 0,
     connection |-> 0, output_action |-> "", data |-> 0, pb0 |-> FALSE,
     pb1 |-> FALSE, stale |-> FALSE, expiry_queued |-> FALSE]

\* what the stack does as it hands the event over
Deliver(s, evt) ==
    IF evt.id = "system_boot" THEN [s EXCEPT !.phase = "booting"]
    ELSE IF evt.id = "mesh_node_reset" THEN [s EXCEPT !.phase = "node_reset"]
    ELSE IF evt.id \in {"mesh_node_provisioning_failed",
                        "mesh_node_provisioned"}
    THEN [s EXCEPT !.expiry_queued = evt.expiry_queued]
    ELSE IF evt.id = "hardware_soft_timer" /\ evt.stale
    THEN [s EXCEPT !.in_flight = @ \ {evt.handle}]
    ELSE IF evt.id = "mesh_node_initialized" THEN [s EXCEPT !.phase = "running"]
    ELSE IF evt.id = "system_external_signal" THEN [s EXCEPT !.signals = {}]
    ELSE IF evt.id = "le_connection_opened"
    THEN [s EXCEPT !.open_conns = @ + 1]
    ELSE IF evt.id = "le_connection_closed"
    THEN [s EXCEPT !.open_conns = @ - 1]
    ELSE IF evt.id = "mesh_lpn_friendship_established"
    THEN [s EXCEPT !.friend = "established"]
    ELSE IF evt.id \in {"mesh_lpn_friendship_failed",
                        "mesh_lpn_friendship_terminated"}
    THEN [s EXCEPT !.friend = "none"]
    ELSE IF evt.id = "hardware_soft_timer"
    THEN [s EXCEPT !.timers = {t \in @ : ~(t.handle = evt.handle
                                           /\ t.mode = SOFT_TIMER_ONE_SHOT)}]
    ELSE s

\* The expiry of the sensor's power-on delay raises the signal given to
\* soil_init.
soil_handle_events(s, evt) ==
    IF ~s.halted /\ evt.id = "hardware_soft_timer"
       /\ evt.handle = SOIL_POWER_ON_HANDLE
    THEN gecko_external_signal(s, ADC_WAIT_FINISHED)
    ELSE s

\* handle_gecko_event only serves the OTA update; then the two modules
\* nothing runs after gecko_cmd_system_reset
unless_restarted(s, evt) ==
    IF s.restarted THEN s ELSE moistsrv_handle_events(s, evt)

main_loop(evt, f, sf, w) ==
    unless_restarted(
        meshconn_handle_events(
            soil_handle_events(Deliver(Machine(f, sf, w), evt), evt), evt), evt)

\* the on phases of the blink word in progress, after a pass: a pass that
\* lights the LED begins phase 1 when it starts a sequence or follows the
\* long gap, and the next phase of the word otherwise (counted up to
\* MaxPhases)
PhasesAfter(s) ==
    IF \E i \in 1 .. Len(s.trace) : s.trace[i].op = "led_on"
    THEN IF \/ \E i \in 1 .. Len(s.trace) : s.trace[i].op = "_start_blinking"
            \/ \E x \in timers : x.time = "BLINK_GAP_COUNTS"
         THEN 1
         ELSE IF on_phases < MaxPhases THEN on_phases + 1 ELSE on_phases
    ELSE IF s.restarted THEN 0 ELSE on_phases

\* the blink-timer expiries handled since blinks_remaining was last loaded
ExpiriesAfter(s, evt) ==
    IF \/ s.restarted
       \/ \E i \in 1 .. Len(s.trace) :
              s.trace[i].op = "_start_blinking" /\ s.trace[i].arg > 0
       \/ \E x \in s.timers : x.time = "BLINK_GAP_COUNTS"
    THEN 0
    ELSE IF evt.id = "hardware_soft_timer" /\ evt.handle = BLINK_TIMER_HANDLE
            /\ ~evt.stale
    THEN word_expiries + 1
    ELSE word_expiries

Commit(s, evt) ==
    /\ alarm_level' = s.alarm_level
    /\ disable_deep_sleep' = s.disable_deep_sleep
    /\ ready' = s.ready
    /\ conn_count' = s.conn_count
    /\ state' = s.state
    /\ conn_handle' = s.conn_handle
    /\ flash' = s.flash
    /\ timers' = s.timers
    /\ in_flight' = s.in_flight
    /\ blink_count' = s.blink_count
    /\ blinks_remaining' = s.blinks_remaining
    /\ blink_state' = s.blink_state
    /\ blinking' = s.blinking
    /\ led' = s.led
    /\ lcd_passkey' = s.lcd_passkey
    /\ on_phases' = PhasesAfter(s)
    /\ word_expiries' = ExpiriesAfter(s, evt)
    /\ settings_loaded' = s.settings_loaded
    /\ signals' = s.signals
    /\ lpn' = s.lpn
    /\ friend' = s.friend
    /\ open_conns' = s.open_conns
    /\ phase' = s.phase
    /\ sensor_on' = s.sensor_on
    /\ lcd_action' = s.lcd_action
    /\ halted' = s.halted
    /\ last_request' = s.last_request
    /\ trace' = s.trace
    /\ lastEvt' = evt
    /\ UNCHANGED stack_faults

\* the asserted call of a pass that returns an error (0: none does); the
\* stack returns such errors only in behaviours that start with
\* stack_faults set, and Init below starts with it clear
FailPoints == IF stack_faults THEN 0 .. MaxFailPoint ELSE {0}

\* the mesh_lib calls of a pass that return an error: any of the first
\* MaxSoftFail, and at most one of them where asserted calls may fail too
SoftFailSets(evt) ==
    IF evt.id \in {"system_external_signal",
                   "mesh_generic_server_client_request"}
    THEN IF stack_faults
         THEN {{}} \cup {{i} : i \in 1 .. MaxSoftFail}
         ELSE SUBSET (1 .. MaxSoftFail)
    ELSE {{}}

\* One pass for event evt, for every combination of results the stack may
\* return to the calls made in it.
Pass(evt, words) ==
    /\ ~halted
    /\ \E w \in words, sf \in SoftFailSets(evt), f \in FailPoints :
         Commit(main_loop(evt, f, sf, w), evt)

(***************************************************************************)
(* The events the stack delivers                                           *)
(***************************************************************************)
SystemBoot ==
    /\ phase = "reset"
    /\ Pass([NoEvt EXCEPT !.id = "system_boot"], {0})

NodeInitialized ==
    /\ phase = "booting"
    /\ \E p \in BOOLEAN :
         Pass([NoEvt EXCEPT !.id = "mesh_node_initialized", !.provisioned = p],
              {0})

ProvisioningStarted ==
    /\ phase = "running" /\ state = "unprovisioned"
    /\ Pass([NoEvt EXCEPT !.id = "mesh_node_provisioning_started"], {0})

\* whether the blink timer's expiry is already queued when an event that
\* stops it is handled: only an armed timer can have expired
ExpiryQueued ==
    IF BLINK_TIMER_HANDLE \in HandlesOf(timers) THEN BOOLEAN ELSE {FALSE}

ProvisioningFailed ==
    /\ state = "provisioning"
    /\ \E q \in ExpiryQueued :
         Pass([NoEvt EXCEPT !.id = "mesh_node_provisioning_failed",
                            !.expiry_queued = q], {0})

Provisioned ==
    /\ state = "provisioning"
    /\ \E q \in ExpiryQueued :
         Pass([NoEvt EXCEPT !.id = "mesh_node_provisioned",
                            !.expiry_queued = q], {0})

\* the node restarts with PB0 held down; PB1 is sampled after the restart
SystemBootPB0Held ==
    /\ phase = "reset"
    /\ \E b \in BOOLEAN :
         Pass([NoEvt EXCEPT !.id = "system_boot", !.pb0 = TRUE, !.pb1 = b],
              {0})

StaticOobRequest ==
    /\ state = "provisioning"
    /\ Pass([NoEvt EXCEPT !.id = "mesh_node_static_oob_request"], {0})

\* the provisioner's output challenge
DisplayOutputOob ==
    /\ state = "provisioning"
    /\ \E a \in OutputActions :
       \E n \in (IF a = "MESH_PROV_OOB_DISPLY_BLINK" THEN BlinkCounts
                 ELSE {0}) :
         Pass([NoEvt EXCEPT !.id = "mesh_node_display_output_oob",
                            !.output_action = a, !.data = n], {0})

\* the provisioner removes the node from the network
NodeReset ==
    /\ phase = "running" /\ state = "network_ready"
    /\ Pass([NoEvt EXCEPT !.id = "mesh_node_reset"], {0})

ExternalSignal ==
    /\ signals # {}
    /\ \E r \in (IF ADC_WAIT_FINISHED \in signals THEN Readings ELSE {0}) :
         Pass([NoEvt EXCEPT !.id = "system_external_signal",
                            !.extsignals = signals, !.reading = r], {0})

ButtonPB0 ==
    /\ ~halted /\ phase # "reset" /\ PB_EVT_0 \notin signals
    /\ signals' = signals \cup {PB_EVT_0}
    /\ UNCHANGED <<alarm_level, disable_deep_sleep, ready, conn_count, state,
                   conn_handle, blink_count, blinks_remaining, blink_state,
                   blinking, flash, timers, in_flight, lpn, friend,
                   open_conns, phase, sensor_on, led, lcd_action,
                   lcd_passkey, halted, lastEvt, trace, last_request,
                   on_phases, word_expiries, settings_loaded, stack_faults>>

\* the words a request for level may read: only a level other than
\* MOIST_ALARM_FLAG that indexes past the table reads behind it
WordsBehind(level) ==
    IF level # MOIST_ALARM_FLAG /\ level >= Len(lux_to_alarm_table)
    THEN OutOfTableWords
    ELSE {0}

ClientRequest ==
    /\ ready
    /\ \E l \in RequestLevels, r \in BOOLEAN :
         Pass([NoEvt EXCEPT !.id = "mesh_generic_server_client_request",
                            !.kind = "mesh_generic_request_level",
                            !.level = l, !.response_required = r],
              WordsBehind(l))

ClientRequestOther ==
    /\ ready
    /\ Pass([NoEvt EXCEPT !.id = "mesh_generic_server_client_request",
                          !.kind = "mesh_generic_request_on_off",
                          !.level = 1], {0})

ConnectionOpened ==
    /\ phase = "running" /\ open_conns < MAX_CONNECTIONS
    /\ Pass([NoEvt EXCEPT !.id = "le_connection_opened",
                          !.connection = open_conns + 1], {0})

ConnectionClosed ==
    /\ open_conns > 0
    /\ Pass([NoEvt EXCEPT !.id = "le_connection_closed"], {0})

FriendshipEstablished ==
    /\ friend = "establishing"
    /\ Pass([NoEvt EXCEPT !.id = "mesh_lpn_friendship_established"], {0})

FriendshipFailed ==
    /\ friend = "establishing"
    /\ Pass([NoEvt EXCEPT !.id = "mesh_lpn_friendship_failed"], {0})

FriendshipTerminated ==
    /\ friend = "established"
    /\ Pass([NoEvt EXCEPT !.id = "mesh_lpn_friendship_terminated"], {0})

\* the expiry of an armed soft timer, of those with a handle in H
SoftTimerOf(H) ==
    \E h \in HandlesOf(timers) \cap H :
        Pass([NoEvt EXCEPT !.id = "hardware_soft_timer", !.handle = h], {0})

SoftTimer ==
    SoftTimerOf({SAVE_TIMER_HANDLE, TOAST_TIMER_HANDLE, BEFRIEND_TIMER_HANDLE,
                 MEASUREMENT_TIMER_HANDLE, SOIL_POWER_ON_HANDLE})

BlinkTimer ==
    /\ word_expiries < MaxWordExpiries
    /\ SoftTimerOf({BLINK_TIMER_HANDLE})

\* the expiry of a timer that was stopped after the expiry was queued
StaleBlinkTimer ==
    /\ BLINK_TIMER_HANDLE \in in_flight
    /\ Pass([NoEvt EXCEPT !.id = "hardware_soft_timer",
                          !.handle = BLINK_TIMER_HANDLE, !.stale = TRUE], {0})

RebootTimer ==
    /\ REBOOT_TIMER_HANDLE \in HandlesOf(timers)
    /\ \E b \in BOOLEAN :
         Pass([NoEvt EXCEPT !.id = "hardware_soft_timer",
                            !.handle = REBOOT_TIMER_HANDLE, !.pb1 = b], {0})

\* a configuration whose sensor needs longer than the measurement period
Milliseconds_slow_sensor(time) ==
    IF time = "SOIL_POWER_ON_TIME" THEN 6000
    ELSE IF time = "MEASUREMENT_TIME" THEN 5000
    ELSE 0

\* the configured times of the measurement cycle, in milliseconds
Milliseconds(time) ==
    IF time = "SOIL_POWER_ON_TIME" THEN 10
    ELSE IF time = "MEASUREMENT_TIME" THEN 5000
    ELSE 0

\* The measurement timer runs free: its period restarts when it expires, and
\* the power-on delay is armed by the handler of that expiry.  The delay,
\* if shorter than the period, therefore expires before the period does
\* again, and the signal raised at its expiry is queued before it too:
\* events are handed over in the order they occur.
MeasurementTimerInOrder ==
    /\ \A x \in timers :
          x.handle = SOIL_POWER_ON_HANDLE =>
              Milliseconds(x.time) >= Milliseconds("MEASUREMENT_TIME")
    /\ ADC_WAIT_FINISHED \in signals =>
          Milliseconds("SOIL_POWER_ON_TIME") >= Milliseconds("MEASUREMENT_TIME")
    /\ SoftTimerOf({MEASUREMENT_TIMER_HANDLE})

SaveTimer == SoftTimerOf({SAVE_TIMER_HANDLE})
ToastTimer == SoftTimerOf({TOAST_TIMER_HANDLE})
BefriendTimer == SoftTimerOf({BEFRIEND_TIMER_HANDLE})
MeasurementTimer == SoftTimerOf({MEASUREMENT_TIMER_HANDLE})
SoilPowerOnTimer == SoftTimerOf({SOIL_POWER_ON_HANDLE})

\* the node after reset, before the boot event
InitState ==
    /\ alarm_level = 0
    /\ disable_deep_sleep \in BOOLEAN
    /\ ready = FALSE
    /\ conn_count = 0
    /\ state = "init"
    /\ conn_handle = 0
    /\ blink_count = 0
    /\ blinks_remaining = 0
    /\ blink_state = FALSE
    /\ blinking = FALSE
    /\ in_flight = {}
    /\ led = FALSE
    /\ lcd_passkey = ""
    /\ on_phases = 0
    /\ word_expiries = 0
    /\ settings_loaded = FALSE
    /\ flash \in InitialFlash
    /\ timers = {}
    /\ signals = {}
    /\ lpn = FALSE
    /\ friend = "none"
    /\ open_conns = 0
    /\ phase = "reset"
    /\ sensor_on = FALSE
    /\ lcd_action = ""
    /\ halted = FALSE
    /\ lastEvt = NoEvt
    /\ trace = <<>>
    /\ last_request = 0

Init == InitState /\ stack_faults = FALSE

\* the same node on a stack that may return an error to an asserted call
InitFaults == InitState /\ stack_faults = TRUE

Next ==
    \/ SystemBoot
    \/ NodeInitialized
    \/ ProvisioningStarted
    \/ ProvisioningFailed
    \/ Provisioned
    \/ ExternalSignal
    \/ ButtonPB0
    \/ ClientRequest
    \/ ClientRequestOther
    \/ ConnectionOpened
    \/ ConnectionClosed
    \/ FriendshipEstablished
    \/ FriendshipFailed
    \/ FriendshipTerminated
    \/ SoftTimer
    \/ SystemBootPB0Held
    \/ StaticOobRequest
    \/ DisplayOutputOob
    \/ NodeReset
    \/ BlinkTimer
    \/ StaleBlinkTimer
    \/ RebootTimer
    \/ MeasurementTimerInOrder

Spec == Init /\ [][Next]_vars

(***************************************************************************)
(* The node seen one concern at a time.  Each specification below runs the *)
(* same handlers from the same initial states and delivers only the events *)
(* of one concern; the events left out touch none of the state that        *)
(* concern reads.                                                          *)
(***************************************************************************)
BootSequence ==
    \/ SystemBoot
    \/ NodeInitialized
    \/ ProvisioningStarted
    \/ ProvisioningFailed
    \/ Provisioned
    \/ ExternalSignal

\* the alarm threshold: set requests, the debounced save, the toast
NextSettings ==
    \/ BootSequence
    \/ ClientRequest
    \/ ClientRequestOther
    \/ SaveTimer
    \/ ToastTimer

SpecSettings == Init /\ [][NextSettings]_vars

\* the stack hands over the expiry of an armed toast timer: weak fairness
\* of ToastTimer, written with its enabling condition
ToastTimerFair ==
    \/ []<>(TOAST_TIMER_HANDLE \notin HandlesOf(timers) \/ halted)
    \/ []<><<ToastTimer>>_vars

SpecToastFair == SpecSettings /\ ToastTimerFair

\* the stack hands over the expiry of an armed save timer: weak fairness of
\* SaveTimer, written with its enabling condition
SaveTimerFair ==
    \/ []<>(SAVE_TIMER_HANDLE \notin HandlesOf(timers) \/ halted)
    \/ []<><<SaveTimer>>_vars

SpecSettingsFair == SpecSettings /\ SaveTimerFair

\* the sampling cycle and the force-transmit button
NextMeasure ==
    \/ BootSequence
    \/ ButtonPB0
    \/ MeasurementTimer
    \/ SoilPowerOnTimer

SpecMeasure == Init /\ [][NextMeasure]_vars

\* weak fairness of ExternalSignal, written with its enabling condition:
\* the event can be delivered exactly while a signal is raised and the node
\* has not halted
ExternalSignalFair ==
    []<>(signals = {} \/ halted) \/ []<><<ExternalSignal>>_vars

\* the stack delivers the expiry of an armed power-on delay, and a raised
\* external signal, to the main loop sooner or later
SpecMeasureFair ==
    SpecMeasure /\ WF_vars(SoilPowerOnTimer) /\ ExternalSignalFair

\* the sampling cycle with the timers expiring in the order of their times
NextMeasureTimed ==
    \/ BootSequence
    \/ ButtonPB0
    \/ MeasurementTimerInOrder
    \/ SoilPowerOnTimer

SpecMeasureTimed == Init /\ [][NextMeasureTimed]_vars

\* connections, low-power mode and the friendship
NextFriend ==
    \/ BootSequence
    \/ ConnectionOpened
    \/ ConnectionClosed
    \/ FriendshipEstablished
    \/ FriendshipFailed
    \/ FriendshipTerminated
    \/ BefriendTimer

SpecFriend == Init /\ [][NextFriend]_vars

\* the asserted stack calls, any one of which may fail
NextFaults ==
    \/ BootSequence
    \/ ClientRequest
    \/ SaveTimer
    \/ ButtonPB0

SpecFaults == InitFaults /\ [][NextFaults]_vars

\* provisioning, the blink challenge, removal from the network and restart
NextProvision ==
    \/ SystemBoot
    \/ SystemBootPB0Held
    \/ NodeInitialized
    \/ ProvisioningStarted
    \/ ProvisioningFailed
    \/ Provisioned
    \/ StaticOobRequest
    \/ DisplayOutputOob
    \/ NodeReset
    \/ BlinkTimer
    \/ StaleBlinkTimer
    \/ RebootTimer

SpecProvision == Init /\ [][NextProvision]_vars

\* the use of the model binding over the lives of the node
NextReady ==
    \/ BootSequence
    \/ ButtonPB0
    \/ MeasurementTimer
    \/ SoilPowerOnTimer
    \/ NodeReset
    \/ RebootTimer

SpecReady == Init /\ [][NextReady]_vars

\* changes of the threshold and the node reset
NextErase ==
    \/ BootSequence
    \/ ClientRequest
    \/ SaveTimer
    \/ NodeReset
    \/ RebootTimer

SpecErase == Init /\ [][NextErase]_vars

\* connections and the node reset
NextConnection ==
    \/ BootSequence
    \/ ConnectionOpened
    \/ ConnectionClosed
    \/ NodeReset
    \/ RebootTimer

SpecConnection == Init /\ [][NextConnection]_vars

\* the stack hands over the expiry of an armed reboot timer: weak fairness
\* of RebootTimer, written with its enabling condition
RebootTimerFair ==
    \/ []<>(REBOOT_TIMER_HANDLE \notin HandlesOf(timers) \/ halted)
    \/ []<><<RebootTimer>>_vars

SpecProvisionFair == SpecProvision /\ RebootTimerFair

(***************************************************************************)
(* Reading the log of the last pass                                        *)
(***************************************************************************)
\* the positions in the log of the calls of op
CallsOf(op) == {i \in 1 .. Len(trace) : trace[i].op = op}

\* the positions of the calls of op with argument arg
CallsWith(op, arg) == {i \in CallsOf(op) : trace[i].arg = arg}

\* the publish calls of value v made after position i of the log
PublishedAfter(i, v) ==
    {j \in CallsWith("mesh_lib_generic_server_publish", v) : j > i}

\* the toasts of the last pass showing message
ToastsOf(message) == {i \in CallsOf("_toast") : trace[i].msg = message}

\* the threshold a request for lux_level stands for: the table entry at the
\* level, the last entry for a level past the table
SaturatedThreshold(lux_level) ==
    IF lux_level >= Len(lux_to_alarm_table)
    THEN lux_to_alarm_table[Len(lux_to_alarm_table)]
    ELSE lux_to_alarm_table[lux_level + 1]

LevelRequest ==
    /\ lastEvt.id = "mesh_generic_server_client_request"
    /\ lastEvt.kind = "mesh_generic_request_level"
    /\ lastEvt.level # MOIST_ALARM_FLAG

TimerExpired(handle) ==
    lastEvt.id = "hardware_soft_timer" /\ lastEvt.handle = handle

(***************************************************************************)
(* The alarm threshold                                                     *)
(***************************************************************************)
\* C1: when the save-debounce timer armed by a burst of threshold-set
\* requests expires, the settings are written to flash exactly once, and
\* the value written is the saturated, table-mapped threshold of the last
\* request of the burst.
C1_BurstWritesLastThreshold ==
    TimerExpired(SAVE_TIMER_HANDLE) =>
        /\ Cardinality(CallsOf("flash_ps_save")) = 1
        /\ flash = StoredRecord(SaturatedThreshold(last_request))

\* C2: a threshold-set request for a level at or past the number of table
\* entries (and not the sentinel) reads the table at its last index, never
\* outside it, and installs the last entry as the threshold.
C2_IndexSaturatesAtTableEnd ==
    (LevelRequest /\ lastEvt.level >= Len(lux_to_alarm_table)) =>
        /\ CallsOf("lux_to_alarm_table") # {}
        /\ \A i \in CallsOf("lux_to_alarm_table") :
             trace[i].arg = Len(lux_to_alarm_table) - 1 /\ trace[i].ok
        /\ alarm_level = lux_to_alarm_table[Len(lux_to_alarm_table)]

\* C10: a call of _set_alarm_level with the current threshold changes
\* neither the settings nor the stored record, neither arms nor restarts
\* the save-debounce timer, and shows no threshold toast.
C10_SameLevelIsNoOp ==
    [][\A i \in {j \in 1 .. Len(trace') : trace'[j].op = "_set_alarm_level"} :
          trace'[i].arg = alarm_level =>
              /\ alarm_level' = alarm_level
              /\ flash' = flash
              /\ (SAVE_TIMER_HANDLE \in HandlesOf(timers'))
                   = (SAVE_TIMER_HANDLE \in HandlesOf(timers))
              /\ \A k \in 1 .. Len(trace') :
                   /\ ~(trace'[k].op = "set_soft_timer"
                        /\ trace'[k].arg = SAVE_TIMER_HANDLE)
                   /\ ~(trace'[k].op = "_toast" /\ trace'[k].msg = "ALM LVL")
      ]_vars

\* a request for the threshold already installed arrives while a save is
\* pending: nothing is announced and the save stays pending
C10_Witness ==
    /\ LevelRequest
    /\ CallsWith("_set_alarm_level", alarm_level) # {}
    /\ ToastsOf("ALM LVL") = {}
    /\ SAVE_TIMER_HANDLE \in HandlesOf(timers)

\* C11: the response to a threshold-set request that asks for one carries
\* the threshold that was committed before the request was applied.
C11_ResponseCarriesPreviousThreshold ==
    [][\A i \in {j \in 1 .. Len(trace') :
                   trace'[j].op = "mesh_lib_generic_server_response"} :
          trace'[i].arg = alarm_level
      ]_vars

\* the pass just made handled a set-level request carrying the sentinel
SentinelRequest ==
    /\ lastEvt.id = "mesh_generic_server_client_request"
    /\ lastEvt.kind = "mesh_generic_request_level"
    /\ lastEvt.level = MOIST_ALARM_FLAG

\* C12: a set-level request whose level is MOIST_ALARM_FLAG is ignored: the
\* threshold, the timers (the save-debounce timer among them), the toast
\* row and the stored record are unchanged, and no call at all is made.
C12_SentinelRequestIgnored ==
    [][SentinelRequest' =>
          /\ alarm_level' = alarm_level
          /\ timers' = timers
          /\ lcd_action' = lcd_action
          /\ flash' = flash
          /\ trace' = <<>>
      ]_vars

\* a sentinel request, with a response asked for, arrived while a save
\* was pending
C12_Witness ==
    /\ SentinelRequest
    /\ lastEvt.response_required
    /\ SAVE_TIMER_HANDLE \in HandlesOf(timers)

\* C13: at the boot signal, a stored record of exactly two bytes is loaded
\* and nothing is saved; an absent record or one of another length gives
\* the default threshold and exactly one flash save, of that default.
C13_BootLoadsOrDefaults ==
    [][(CORE_EVT_BOOT \in lastEvt'.extsignals) =>
          (IF flash.present /\ flash.len = 2
           THEN /\ alarm_level' = flash.value
                /\ flash' = flash
                /\ \A k \in 1 .. Len(trace') : trace'[k].op # "flash_ps_save"
           ELSE /\ alarm_level' = DEFAULT_ALARM_LEVEL
                /\ flash' = StoredRecord(DEFAULT_ALARM_LEVEL)
                /\ Cardinality({k \in 1 .. Len(trace') :
                                   trace'[k].op = "flash_ps_save"}) = 1)
      ]_vars

\* the boot signal found no usable record and saved the default
C13_Witness ==
    /\ CORE_EVT_BOOT \in lastEvt.extsignals
    /\ CallsWith("flash_ps_save", DEFAULT_ALARM_LEVEL) # {}
    /\ alarm_level = DEFAULT_ALARM_LEVEL

(***************************************************************************)
(* The measurement                                                         *)
(***************************************************************************)
\* the button is honoured: the node is on the network and the models are
\* registered
ForceTransmitHonoured ==
    PB_EVT_0 \in lastEvt.extsignals /\ state = "network_ready" /\ ready

\* C14: a PB_EVT_0 signal shows the "Forced TX" toast and publishes
\* MOIST_ALARM_FLAG if and only if the state is network_ready and ready is
\* set; otherwise the signal, arriving alone, causes no call at all.
C14_ForceTransmitOnlyWhenReady ==
    /\ (ToastsOf("Forced TX") # {}) <=> ForceTransmitHonoured
    /\ \A i \in ToastsOf("Forced TX") :
           \E j \in CallsWith("mesh_lib_generic_server_publish",
                              MOIST_ALARM_FLAG) :
               /\ j > i
               /\ \A k \in CallsOf("_finish_measurement") : j < k
    /\ (lastEvt.extsignals = {PB_EVT_0} /\ ~ForceTransmitHonoured) =>
           trace = <<>>

\* the button was pressed on the network and the sentinel went out
C14_Witness ==
    /\ lastEvt.extsignals = {PB_EVT_0}
    /\ CallsWith("mesh_lib_generic_server_publish", MOIST_ALARM_FLAG) # {}

\* C3: when _finish_measurement obtains a reading strictly greater than the
\* threshold, the handling of that event publishes MOIST_ALARM_FLAG and
\* does not publish the raw reading.
C3_AlarmReplacesReading ==
    \A i \in CallsOf("_finish_measurement") :
        trace[i].arg > alarm_level =>
            /\ PublishedAfter(i, MOIST_ALARM_FLAG) # {}
            /\ PublishedAfter(i, trace[i].arg) = {}

\* C4: when _finish_measurement obtains a reading less than or equal to the
\* threshold, the handling of that event publishes the raw reading exactly
\* once and never publishes MOIST_ALARM_FLAG.
C4_DryReadingPublishedOnce ==
    \A i \in CallsOf("_finish_measurement") :
        trace[i].arg <= alarm_level =>
            /\ Cardinality(PublishedAfter(i, trace[i].arg)) = 1
            /\ PublishedAfter(i, MOIST_ALARM_FLAG) = {}

\* a reading exactly equal to the threshold was published
C4_Witness ==
    \E i \in CallsOf("_finish_measurement") :
        /\ trace[i].arg = alarm_level
        /\ PublishedAfter(i, trace[i].arg) # {}

(***************************************************************************)
(* Connections, low-power mode and the friendship                          *)
(***************************************************************************)
\* C5: a friendship-establishment request is never issued while the
\* connection count is greater than 0.
C5_NoFriendRequestWhileConnected ==
    CallsOf("mesh_lpn_establish_friendship") # {} => conn_count = 0

\* C6: once the node is on the network, low-power mode is requested if and
\* only if the connection count is exactly 0 and disable_deep_sleep is not
\* set.
C6_LowPowerIffUnconnected ==
    ready => (lpn <=> (conn_count = 0 /\ ~disable_deep_sleep))

\* C7: conn_count never passes below zero (never wraps to 255): it always
\* equals the number of connections currently open.
C7_CountIsOpenConnections ==
    conn_count = open_conns /\ conn_count <= MAX_CONNECTIONS

\* the second of two open connections was closed
C7_Witness ==
    lastEvt.id = "le_connection_closed" /\ open_conns = 1

\* C8: the handler of a friendship-failed event issues no friendship
\* request and arms the befriend-retry timer once; the expiry of that
\* one-shot timer issues exactly one request.
C8_FailureRetriesOnTimer ==
    /\ lastEvt.id = "mesh_lpn_friendship_failed" =>
           /\ CallsOf("mesh_lpn_establish_friendship") = {}
           /\ Cardinality(CallsWith("set_soft_timer", BEFRIEND_TIMER_HANDLE)) = 1
           /\ [handle |-> BEFRIEND_TIMER_HANDLE, mode |-> SOFT_TIMER_ONE_SHOT,
               time |-> "BEFRIEND_RETRY_DELAY"] \in timers
    /\ TimerExpired(BEFRIEND_TIMER_HANDLE) =>
           /\ Cardinality(CallsOf("mesh_lpn_establish_friendship")) = 1
           /\ BEFRIEND_TIMER_HANDLE \notin HandlesOf(timers)

\* the retry timer armed by a failure expired and the request was made
C8_Witness ==
    /\ TimerExpired(BEFRIEND_TIMER_HANDLE)
    /\ friend = "establishing"
    /\ conn_count = 0

\* C9: the handler of a friendship-terminated event issues a friendship
\* request within the handling of that event, and does not arm the
\* befriend-retry timer.
C9_TerminationRequestsAtOnce ==
    lastEvt.id = "mesh_lpn_friendship_terminated" =>
        /\ Cardinality(CallsOf("mesh_lpn_establish_friendship")) = 1
        /\ CallsWith("set_soft_timer", BEFRIEND_TIMER_HANDLE) = {}
        /\ friend = "establishing"

\* a friendship ended and the next one is being sought
C9_Witness ==
    /\ lastEvt.id = "mesh_lpn_friendship_terminated"
    /\ CallsOf("mesh_lpn_establish_friendship") # {}
(***************************************************************************)
(* Provisioning and the blink challenge                                    *)
(***************************************************************************)
\* the positions in the log of a pass at which state is assigned
StateWrites(log) == {i \in 1 .. Len(log) : log[i].op = "state"}

\* the value state holds just before position i of the log of a pass that
\* began with state at before
StateBefore(log, i, before) ==
    IF \E j \in StateWrites(log) : j < i
    THEN log[CHOOSE j \in StateWrites(log) :
                 j < i /\ \A k \in StateWrites(log) : k < i => k <= j].msg
    ELSE before

AllowedTransitions ==
    {<<"init", "booted">>, <<"booted", "unprovisioned">>,
     <<"booted", "network_ready">>, <<"unprovisioned", "provisioning">>,
     <<"provisioning", "network_ready">>, <<"provisioning", "unprovisioned">>}

FactoryResetAt(log, i) ==
    \E j \in 1 .. i : log[j].op = "flash_ps_erase_all"

\* C15: every change of the connectivity state made by meshconn_handle_events
\* is Init to Booted, Booted to Unprovisioned, Booted to NetworkReady,
\* Unprovisioned to Provisioning, Provisioning to NetworkReady, Provisioning
\* to Unprovisioned, or any state to Unprovisioned on a factory reset; the
\* state is never Error.
C15_OnlyListedTransitions ==
    [][/\ \A i \in StateWrites(trace') :
            \/ trace'[i].msg = StateBefore(trace', i, state)
            \/ <<StateBefore(trace', i, state), trace'[i].msg>>
                   \in AllowedTransitions
            \/ trace'[i].msg = "unprovisioned" /\ FactoryResetAt(trace', i)
       /\ state' # "error"]_vars

\* a provisioned node is removed from the network and falls back to
\* Unprovisioned; a node booted with PB0 held is factory-reset from Booted
C15_Witness ==
    /\ lastEvt.id = "mesh_node_reset"
    /\ state = "unprovisioned"
    /\ Cardinality(StateWrites(trace)) = 1

\* the time the blink timer is armed for (none: the timer is not armed)
BlinkTimerTime ==
    IF BLINK_TIMER_HANDLE \in HandlesOf(timers)
    THEN (CHOOSE x \in timers : x.handle = BLINK_TIMER_HANDLE).time
    ELSE "none"

\* C16: while a blink sequence started with N >= 1 is active, each word of
\* it has exactly N on phases, every on phase is followed by an off phase,
\* the off phase after each pulse but the N-th is the short one, and the
\* off phase after the N-th is the one long gap before any further on phase.
C16_WordIsNPulsesThenGap ==
    (blinking /\ blink_count >= 1) =>
        /\ on_phases \in 1 .. blink_count
        /\ led = blink_state
        /\ led => BlinkTimerTime = "BLINK_ON_COUNTS"
        /\ (~led /\ on_phases < blink_count)
               => BlinkTimerTime = "BLINK_OFF_COUNTS"
        /\ (~led /\ on_phases = blink_count)
               => BlinkTimerTime = "BLINK_GAP_COUNTS"

\* the second pulse of a two-pulse word has just ended and the long gap runs
C16_Witness ==
    /\ blinking /\ blink_count = 2 /\ on_phases = 2 /\ ~led
    /\ TimerExpired(BLINK_TIMER_HANDLE)
    /\ BlinkTimerTime = "BLINK_GAP_COUNTS"

\* the last pass handled a blink challenge for the number count
BlinkChallenge(evt, count) ==
    /\ evt.id = "mesh_node_display_output_oob"
    /\ evt.output_action = "MESH_PROV_OOB_DISPLY_BLINK"
    /\ evt.data = count

\* the indicator shows the answer to a challenge for zero: only such a
\* challenge lights it while blink_count is 0 during provisioning
ZeroShown == state = "provisioning" /\ blink_count = 0 /\ led

\* C17: after a blink challenge with N = 0 the indicator is on, and it stays
\* on, no blink-timer expiry toggling it, until _stop_blinking runs or
\* another challenge arrives, whatever blink sequence was active before.
C17_ZeroChallengeStaysOn ==
    [][/\ BlinkChallenge(lastEvt', 0) => led'
       /\ (ZeroShown
              /\ lastEvt'.id # "mesh_node_display_output_oob"
              /\ \A i \in 1 .. Len(trace') : trace'[i].op # "stop_soft_timer")
             => led']_vars

\* C18: while no blink sequence is active, the expiry of the blink timer,
\* the one already queued when _stop_blinking stopped the timer included,
\* does nothing: no call is made, no timer is armed, the indicator and every
\* variable of the two modules stay as they were.
C18_ExpiryWhenIdleIsNoOp ==
    [][(TimerExpired(BLINK_TIMER_HANDLE)' /\ ~blinking) =>
          /\ trace' = <<>>
          /\ UNCHANGED <<led, timers, blinking, blink_state, blink_count,
                         blinks_remaining, state, conn_handle, alarm_level,
                         ready, conn_count, flash, signals, lcd_action,
                         lcd_passkey, halted>>]_vars

\* the expiry queued before the stop has been handled with no sequence active
C18_Witness ==
    /\ TimerExpired(BLINK_TIMER_HANDLE) /\ lastEvt.stale
    /\ ~blinking /\ ~led /\ trace = <<>>
    /\ BLINK_TIMER_HANDLE \notin in_flight

(***************************************************************************)
(* Errors returned by the stack                                            *)
(***************************************************************************)
\* the positions in log of the calls of ops that returned an error
FailedCalls(log, ops) ==
    {i \in 1 .. Len(log) : log[i].op \in ops /\ ~log[i].ok}

\* arming a soft timer, saving the settings, initialising mesh_lib and
\* registering the model's handlers
FatalOps ==
    {"set_soft_timer", "flash_ps_save", "mesh_lib_init",
     "mesh_lib_generic_server_register_handler"}

\* C19: when arming a soft timer, saving the settings, or initialising or
\* registering the mesh model fails, the node halts: the failed call is the
\* last thing the pass does (the timer is not armed by it, the record not
\* written, the models not marked ready), and no event is handled after it.
C19_FatalErrorHalts ==
    [][/\ ~halted
       /\ \A i \in FailedCalls(trace', FatalOps) :
            /\ halted'
            /\ i = Len(trace')
            /\ (trace'[i].op = "set_soft_timer"
                  /\ \A j \in 1 .. (i - 1) :
                         ~(trace'[j].op = "set_soft_timer"
                           /\ trace'[j].arg = trace'[i].arg))
                  => {x \in timers' : x.handle = trace'[i].arg} \subseteq timers
            /\ trace'[i].op = "flash_ps_save" => flash' = flash
            /\ trace'[i].op \in {"mesh_lib_init",
                                 "mesh_lib_generic_server_register_handler"}
                  => ready' = ready]_vars

\* the save of the settings failed when the save timer expired
C19_Witness ==
    /\ halted
    /\ TimerExpired(SAVE_TIMER_HANDLE)
    /\ FailedCalls(trace, {"flash_ps_save"}) = {Len(trace)}
    /\ flash # StoredRecord(alarm_level)

\* the mesh_lib calls whose result is only reported
ReportedOps ==
    {"mesh_lib_generic_server_update", "mesh_lib_generic_server_publish",
     "mesh_lib_generic_server_response"}

\* the error code shown when op fails
ErrorToast(op) ==
    IF op = "mesh_lib_generic_server_update" THEN "U-ERR"
    ELSE IF op = "mesh_lib_generic_server_publish" THEN "P-ERR"
    ELSE "R-ERR"

\* the pass was handed a measurement or the force-transmit signal
PublishRequested ==
    /\ lastEvt.id = "system_external_signal"
    /\ lastEvt.extsignals \cap {PB_EVT_0, ADC_WAIT_FINISHED} # {}

\* C20: a failure of the update, the publish or the response never halts
\* the node (a halt comes only from an asserted call); the failed call is
\* followed at once by the toast of its error code; and no call is repeated:
\* a pass makes at most the one update, one publish (made whether or not
\* the update failed) and one response its event asks for, and a pass
\* that was handed neither a measurement nor the force-transmit signal
\* makes no update and no publish.
C20_ReportedErrorsAreNotFatal ==
    /\ \A i \in FailedCalls(trace, ReportedOps) :
          /\ i < Len(trace)
          /\ trace[i + 1].op = "_toast"
          /\ trace[i + 1].msg = ErrorToast(trace[i].op)
    /\ halted =>
          /\ trace # <<>>
          /\ ~trace[Len(trace)].ok
          /\ trace[Len(trace)].op \notin ReportedOps
    /\ \A op \in ReportedOps : Cardinality(CallsOf(op)) <= 1
    /\ ~PublishRequested =>
          /\ CallsOf("mesh_lib_generic_server_update") = {}
          /\ CallsOf("mesh_lib_generic_server_publish") = {}

\* the update of a forced transmission failed: the error is shown, the one
\* publish is still made, and the node runs on
C20_Witness ==
    /\ PB_EVT_0 \in lastEvt.extsignals
    /\ FailedCalls(trace, {"mesh_lib_generic_server_update"}) # {}
    /\ ToastsOf("U-ERR") # {}
    /\ Cardinality(CallsOf("mesh_lib_generic_server_publish")) = 1
    /\ ~halted

(***************************************************************************)
(* Ordering and progress                                                   *)
(***************************************************************************)
\* every position of the log in I comes before every position in J
AllBefore(I, J) == \A i \in I : \A j \in J : i < j

MeasurementTimerArmed == MEASUREMENT_TIMER_HANDLE \in HandlesOf(timers)

\* C21: from boot the engine initialises in the order settings loaded,
\* model registered, measurement timer armed, low-power decision: the
\* model is never registered, and no measurement compared against the
\* threshold, before _load_settings has run, whether the network-ready
\* signal comes with the boot signal or after a provisioning.
C21_InitialisationOrder ==
    /\ ready => settings_loaded
    /\ MeasurementTimerArmed => ready
    /\ lpn => MeasurementTimerArmed
    /\ CallsOf("_finish_measurement") # {} => settings_loaded
    /\ AllBefore(CallsOf("_load_settings"),
                 CallsOf("mesh_lib_generic_server_register_handler"))
    /\ CORE_EVT_NETWORK_READY \in lastEvt.extsignals =>
          /\ Cardinality(CallsOf("mesh_lib_generic_server_register_handler"))
                = 1
          /\ Cardinality(CallsWith("set_soft_timer",
                                    MEASUREMENT_TIMER_HANDLE)) = 1
          /\ AllBefore(CallsOf("mesh_lib_generic_server_register_handler"),
                       CallsWith("set_soft_timer", MEASUREMENT_TIMER_HANDLE))
          /\ AllBefore(CallsWith("set_soft_timer", MEASUREMENT_TIMER_HANDLE),
                       CallsOf("mesh_lpn_init"))
          /\ ~disable_deep_sleep =>
                Cardinality(CallsOf("mesh_lpn_init")) = 1

\* an already provisioned node: the boot and network-ready signals arrive
\* in one event and all four steps are taken in it
C21_Witness ==
    /\ {CORE_EVT_BOOT, CORE_EVT_NETWORK_READY} \subseteq lastEvt.extsignals
    /\ CallsOf("_load_settings") # {}
    /\ ready /\ MeasurementTimerArmed /\ lpn

\* C22: on a node whose PB1 was held at early boot, low-power mode is never
\* initialised and no friendship is ever requested, in whatever order the
\* boot, post-boot, network-ready, connection and friendship events come.
C22_OverrideKeepsNodeAwake ==
    disable_deep_sleep =>
        /\ ~lpn
        /\ friend = "none"
        /\ CallsOf("mesh_lpn_init") = {}
        /\ CallsOf("mesh_lpn_establish_friendship") = {}
        /\ BEFRIEND_TIMER_HANDLE \notin HandlesOf(timers)

\* the last connection of a registered node with the override has closed
C22_Witness ==
    /\ disable_deep_sleep /\ ready
    /\ lastEvt.id = "le_connection_closed"
    /\ conn_count = 0
    /\ ~lpn

\* the last pass finished an acquisition: the conversion was made and
\* published, and the sensor is powered down
AcquisitionCompleted ==
    /\ ADC_WAIT_FINISHED \in lastEvt.extsignals
    /\ CallsOf("_finish_measurement") # {}
    /\ CallsOf("mesh_lib_generic_server_publish") # {}
    /\ ~sensor_on

AcquisitionOutstanding ==
    \/ sensor_on
    \/ SOIL_POWER_ON_HANDLE \in HandlesOf(timers)
    \/ ADC_WAIT_FINISHED \in signals

\* the step is a button interrupt, which raises a signal and runs no handler
InterruptStep ==
    /\ PB_EVT_0 \notin signals
    /\ signals' = signals \cup {PB_EVT_0}
    /\ UNCHANGED <<trace, lastEvt, timers, sensor_on>>

OnlyErrorToastBetween(i, j) ==
    \/ j = i + 1
    \/ /\ ~trace[i].ok
       /\ j = i + 3
       /\ trace[i + 1].op = "_toast"
       /\ trace[i + 1].msg = "U-ERR"
       /\ trace[i + 2].op = "set_soft_timer"
       /\ trace[i + 2].arg = TOAST_TIMER_HANDLE

\* C25: within the handling of one event, every publish is directly
\* preceded by the update of the model to the value published (only the
\* report of a failed update comes between them), and every update is
\* followed by the publish of its value, whether the update succeeded or
\* not.
C25_UpdateThenPublish ==
    /\ \A j \in CallsOf("mesh_lib_generic_server_publish") :
          \E i \in CallsWith("mesh_lib_generic_server_update",
                             trace[j].arg) :
              i < j /\ OnlyErrorToastBetween(i, j)
    /\ \A i \in CallsOf("mesh_lib_generic_server_update") :
          \E j \in PublishedAfter(i, trace[i].arg) :
              OnlyErrorToastBetween(i, j)

\* the update of the model failed and its value was published all the same
C25_Witness ==
    \E i \in CallsOf("mesh_lib_generic_server_update") :
        /\ ~trace[i].ok
        /\ PublishedAfter(i, trace[i].arg) # {}
        /\ trace[i].arg # MOIST_ALARM_FLAG

(***************************************************************************)
(* Persistence of the threshold                                            *)
(***************************************************************************)
\* the threshold in memory is not the one in flash
ThresholdUnsaved ==
    settings_loaded /\ ~halted /\ flash # StoredRecord(alarm_level)

\* C26: a changed threshold is eventually persisted: while the threshold in
\* memory differs from the record in flash the save timer is armed, and
\* its expiry leaves the current threshold in flash.
C26_ChangeEventuallySaved ==
    /\ [](ThresholdUnsaved => SAVE_TIMER_HANDLE \in HandlesOf(timers))
    /\ (ThresholdUnsaved ~> (flash = StoredRecord(alarm_level)))
    /\ [](TimerExpired(SAVE_TIMER_HANDLE) /\ ~halted
            => flash = StoredRecord(alarm_level))

\* the save timer has expired after a request changed the threshold, and
\* the flash holds the threshold the request installed
C26_Witness ==
    /\ TimerExpired(SAVE_TIMER_HANDLE)
    /\ last_request \in RequestLevels
    /\ alarm_level # DEFAULT_ALARM_LEVEL
    /\ flash = StoredRecord(alarm_level)
    /\ SAVE_TIMER_HANDLE \notin HandlesOf(timers)

(***************************************************************************)
(* Node reset                                                              *)
(***************************************************************************)
\* the last event handled was the node reset
NodeResetHandled == lastEvt.id = "mesh_node_reset" /\ ~halted

\* the last event handled restarted the device
Restarted == CallsOf("system_reset") # {}

\* C27: the handler of the node reset erases the persisted storage, sets
\* the state to unprovisioned and arms the reboot timer without restarting
\* the device; the device is restarted by the expiry of that timer (the
\* only other restart is the boot with PB0 held), and a restart
\* eventually follows every node reset.
C27_ResetThenDelayedRestart ==
    /\ [](NodeResetHandled =>
             /\ CallsOf("flash_ps_erase_all") # {}
             /\ flash = Absent
             /\ state = "unprovisioned"
             /\ REBOOT_TIMER_HANDLE \in HandlesOf(timers)
             /\ ~Restarted
             /\ phase # "reset")
    /\ [](Restarted =>
             \/ TimerExpired(REBOOT_TIMER_HANDLE)
             \/ lastEvt.id = "system_boot" /\ lastEvt.pb0)
    /\ [](TimerExpired(REBOOT_TIMER_HANDLE) /\ ~halted => Restarted)
    /\ (NodeResetHandled
          ~> (TimerExpired(REBOOT_TIMER_HANDLE) /\ Restarted))

\* the reboot timer armed by a node reset has expired and the device has
\* restarted with its storage erased
C27_Witness ==
    /\ TimerExpired(REBOOT_TIMER_HANDLE)
    /\ Restarted
    /\ phase = "reset"
    /\ flash = Absent

(***************************************************************************)
(* The tracked connection                                                  *)
(***************************************************************************)
\* the handler of the node reset asks the stack to close a connection
\* exactly when one is open
CloseRequestedIffOpen ==
    NodeResetHandled =>
        (CallsOf("le_connection_close") # {} <=> open_conns > 0)

\* C28: in every state, the initial one included, conn_handle is 0xFF
\* exactly when no connection is open, and so the node reset requests the
\* closing of a connection exactly when one is open.
C28_HandleTracksConnection ==
    /\ (conn_handle = NO_CONNECTION <=> open_conns = 0)
    /\ CloseRequestedIffOpen

(***************************************************************************)
(* Initialisation of the node and failed provisioning                      *)
(***************************************************************************)
\* the last event handled was mesh_node_initialized with the given flag
NodeInitializedHandled(provisioned) ==
    /\ lastEvt.id = "mesh_node_initialized"
    /\ lastEvt.provisioned = provisioned
    /\ ~halted

\* C29: the handling of mesh_node_initialized of a provisioned node sets
\* the state to network_ready as its only change of state and raises
\* CORE_EVT_BOOT and CORE_EVT_NETWORK_READY; that of an unprovisioned node
\* starts the unprovisioned beaconing, sets the state to unprovisioned and
\* raises CORE_EVT_BOOT but not CORE_EVT_NETWORK_READY.
C29_NodeInitialized ==
    /\ NodeInitializedHandled(TRUE) =>
          /\ state = "network_ready"
          /\ \A i \in CallsOf("state") : trace[i].msg = "network_ready"
          /\ CallsOf("state") # {}
          /\ CallsOf("mesh_node_start_unprov_beaconing") = {}
          /\ CORE_EVT_BOOT \in signals
          /\ CORE_EVT_NETWORK_READY \in signals
    /\ NodeInitializedHandled(FALSE) =>
          /\ state = "unprovisioned"
          /\ \A i \in CallsOf("state") : trace[i].msg = "unprovisioned"
          /\ Cardinality(CallsOf("mesh_node_start_unprov_beaconing")) = 1
          /\ CORE_EVT_BOOT \in signals
          /\ CORE_EVT_NETWORK_READY \notin signals

\* a provisioned node has been initialised: it is on the network and both
\* signals are pending
C29_Witness ==
    /\ NodeInitializedHandled(TRUE)
    /\ state = "network_ready"
    /\ {CORE_EVT_BOOT, CORE_EVT_NETWORK_READY} \subseteq signals

\* C30: after mesh_node_provisioning_failed is handled the state is
\* unprovisioned, no blink sequence is active (the blink timer is stopped),
\* the LED is off, the passkey row is empty and the unprovisioned
\* beaconing has been started again.
C30_ProvisioningFailed ==
    lastEvt.id = "mesh_node_provisioning_failed" /\ ~halted =>
        /\ state = "unprovisioned"
        /\ ~blinking
        /\ BLINK_TIMER_HANDLE \notin HandlesOf(timers)
        /\ ~led
        /\ lcd_passkey = ""
        /\ Cardinality(CallsOf("mesh_node_start_unprov_beaconing")) = 1

\* provisioning has failed while a blink sequence was running: its timer
\* was armed, with the expiry already queued, when the handler stopped it
C30_Witness ==
    /\ lastEvt.id = "mesh_node_provisioning_failed"
    /\ lastEvt.expiry_queued
    /\ BLINK_TIMER_HANDLE \in in_flight
    /\ blink_count > 0
    /\ state = "unprovisioned"
    /\ ~led

\* the raisings of the signal bit in the last pass
SignalsRaised(bit) ==
    {i \in CallsOf("gecko_external_signal") : trace[i].msg = bit}

\* C31: after mesh_node_provisioned is handled the state is network_ready,
\* no blink sequence is active (the blink timer is stopped), the LED is
\* off, the passkey row is empty, and the handler has raised
\* CORE_EVT_NETWORK_READY exactly once.
C31_Provisioned ==
    lastEvt.id = "mesh_node_provisioned" /\ ~halted =>
        /\ state = "network_ready"
        /\ ~blinking
        /\ BLINK_TIMER_HANDLE \notin HandlesOf(timers)
        /\ ~led
        /\ lcd_passkey = ""
        /\ Cardinality(SignalsRaised(CORE_EVT_NETWORK_READY)) = 1
        /\ CORE_EVT_NETWORK_READY \in signals

\* the node has been provisioned while a blink sequence was running: its
\* timer was armed, with the expiry already queued, when the handler
\* stopped it
C31_Witness ==
    /\ lastEvt.id = "mesh_node_provisioned"
    /\ lastEvt.expiry_queued
    /\ BLINK_TIMER_HANDLE \in in_flight
    /\ blink_count > 0
    /\ state = "network_ready"
    /\ CORE_EVT_NETWORK_READY \in signals

(***************************************************************************)
(* The end of a blink sequence                                             *)
(***************************************************************************)
\* the blink timer is armed for the gap that follows the last pulse
InBlinkGap ==
    /\ blinking
    /\ ~blink_state
    /\ \E x \in timers :
          x.handle = BLINK_TIMER_HANDLE /\ x.time = "BLINK_GAP_COUNTS"

\* C32: the expiry of the blink timer that ends the gap after the last
\* pulse of an active sequence leaves the sequence inactive.
C32_InactiveAfterGap ==
    [][(/\ InBlinkGap
        /\ lastEvt'.id = "hardware_soft_timer"
        /\ lastEvt'.handle = BLINK_TIMER_HANDLE
        /\ ~lastEvt'.stale)
       => ~blinking']_vars

(***************************************************************************)
(* Toasts                                                                  *)
(***************************************************************************)
\* the action row shows a toast
ToastShowing == lcd_action # "" /\ ~halted

\* the toast shown last in the last pass
LastToast == trace[CHOOSE i \in CallsOf("_toast") :
                       \A j \in CallsOf("_toast") : j <= i].msg

\* C33: while the action row shows a toast, the toast timer, a single one,
\* is armed; a pass that shows toasts leaves the text of the last of them
\* on the row; the expiry of the timer empties the row; and so every toast
\* is eventually cleared.
C33_ToastEventuallyCleared ==
    /\ [](ToastShowing =>
             Cardinality({x \in timers : x.handle = TOAST_TIMER_HANDLE}) = 1)
    /\ [](CallsOf("_toast") # {} /\ ~halted => lcd_action = LastToast)
    /\ [](TimerExpired(TOAST_TIMER_HANDLE) /\ ~halted =>
             /\ lcd_action = ""
             /\ TOAST_TIMER_HANDLE \notin HandlesOf(timers))
    /\ (ToastShowing ~> (lcd_action = ""))

\* a pass has shown two toasts, the second of which is on the row with the
\* one toast timer armed
C33_Witness ==
    /\ Cardinality(CallsOf("_toast")) >= 2
    /\ lcd_action = LastToast
    /\ \E i \in CallsOf("_toast") : trace[i].msg # LastToast
    /\ TOAST_TIMER_HANDLE \in HandlesOf(timers)

(***************************************************************************)
(* Use of the model binding                                                *)
(***************************************************************************)
\* the operations of the model binding that need a registered model
BindingOps ==
    {"mesh_lib_generic_server_update", "mesh_lib_generic_server_publish",
     "mesh_lib_generic_server_response"}

\* position i of the log of the step's pass lies behind the registration of
\* the model made in the same pass
RegisteredBefore(i) ==
    \E j \in 1 .. (i - 1) :
        /\ trace'[j].op = "mesh_lib_generic_server_register_handler"
        /\ \A k \in j .. i : trace'[k].op # "system_reset"

\* C34: an update, publish or response is issued only with the model
\* registered, either before the pass (ready) or earlier in it; the
\* measurement timer is armed only behind the registration; and a pass
\* that starts and ends with the model unregistered issues none of them.
C34_NothingBeforeRegistration ==
    [][InterruptStep \/
       /\ \A i \in 1 .. Len(trace') :
             trace'[i].op \in BindingOps => ready \/ RegisteredBefore(i)
       /\ \A i \in 1 .. Len(trace') :
             (/\ trace'[i].op = "set_soft_timer"
              /\ trace'[i].arg = MEASUREMENT_TIMER_HANDLE)
                 => RegisteredBefore(i)
       /\ (~ready /\ ~ready') =>
             \A i \in 1 .. Len(trace') : trace'[i].op \notin BindingOps]_vars

\* PB0 was handled before the model was registered and nothing was published
C34_Witness ==
    /\ lastEvt.id = "system_external_signal"
    /\ PB_EVT_0 \in lastEvt.extsignals
    /\ ~ready
    /\ ~halted
    /\ CallsOf("mesh_lib_generic_server_publish") = {}

(***************************************************************************)
(* One friendship request at a time                                        *)
(***************************************************************************)
\* C35: _get_friend is called only with no friendship requested or
\* established: a pass that calls gecko_cmd_mesh_lpn_establish_friendship
\* starts with the friendship "none", or handles the event that has just
\* ended the friendship, and calls it once.
C35_RequestOnlyWhenNotFriended ==
    [][InterruptStep \/
       (\E i \in 1 .. Len(trace') :
            trace'[i].op = "mesh_lpn_establish_friendship")
          => /\ \/ friend = "none"
                \/ lastEvt'.id = "mesh_lpn_friendship_terminated"
             /\ Cardinality({i \in 1 .. Len(trace') :
                    trace'[i].op = "mesh_lpn_establish_friendship"}) = 1]_vars

(***************************************************************************)
(* The storage after a factory reset                                       *)
(***************************************************************************)
\* a node reset has erased the storage and the restart is still to come:
\* only the handler of the node reset arms the reboot timer
AwaitingRestart == REBOOT_TIMER_HANDLE \in HandlesOf(timers) /\ ~halted

\* C36: from the node reset that erased the storage to the restart no
\* settings record is written: the flash holds no record while the
\* restart is awaited.
C36_NoSaveBeforeRestart ==
    AwaitingRestart => flash = Absent

\* C37 as stated: once the settings are loaded, with no save timer armed the
\* record in flash is the threshold in memory.
C37_FlashMatchesMemory ==
    (settings_loaded /\ SAVE_TIMER_HANDLE \notin HandlesOf(timers))
        => flash = StoredRecord(alarm_level)

\* C37 amended: once the settings are loaded, with no save timer armed and
\* no restart awaited after a factory reset, the record in flash is the
\* threshold in memory.
C37_FlashMatchesMemoryUnlessErased ==
    (/\ settings_loaded
     /\ SAVE_TIMER_HANDLE \notin HandlesOf(timers)
     /\ REBOOT_TIMER_HANDLE \notin HandlesOf(timers))
        => flash = StoredRecord(alarm_level)

\* the save timer has expired after a change of the threshold: no save
\* timer is armed and the flash holds the changed threshold
C37_Witness ==
    /\ settings_loaded
    /\ TimerExpired(SAVE_TIMER_HANDLE)
    /\ SAVE_TIMER_HANDLE \notin HandlesOf(timers)
    /\ REBOOT_TIMER_HANDLE \notin HandlesOf(timers)
    /\ alarm_level # DEFAULT_ALARM_LEVEL
    /\ flash = StoredRecord(alarm_level)

(***************************************************************************)
(* The passkey row                                                         *)
(***************************************************************************)
\* C38: the passkey row shows a passkey only in the state provisioning; in
\* the states unprovisioned and network_ready, as in every other state,
\* the row is empty.
C38_PasskeyOnlyWhileProvisioning ==
    lcd_passkey # "" => state = "provisioning"

\* a numeric challenge is on the passkey row during the provisioning
C38_Witness ==
    /\ lastEvt.id = "mesh_node_display_output_oob"
    /\ lastEvt.output_action = "MESH_PROV_OOB_DISPLY_NUMERIC"
    /\ state = "provisioning"
    /\ lcd_passkey # ""

(***************************************************************************)
(* The pulse counter                                                       *)
(***************************************************************************)
\* C39: while a blink sequence is active the uint8_t blinks_remaining lies
\* between 0 and blink_count; a decrement that wrapped from 0 to 255
\* would put it above blink_count.
C39_PulsesRemainingInRange ==
    blinking => (0 <= blinks_remaining /\ blinks_remaining <= blink_count)

====
